---------------------------- MODULE Spec2Model ----------------------------
(***************************************************************************)
(* Registration workflow of the multi-agent registration system.           *)
(*                                                                         *)
(* OrchestrationAgent keeps one state dict per session and runs, for every *)
(* message, the graph built by _build_registration_graph:                  *)
(*                                                                         *)
(*   initialize -> identify_missing_info -> process_input                  *)
(*   process_input -> register_user          if _should_register           *)
(*                 -> identify_missing_info  if _should_collect_info       *)
(*                 -> generate_response      otherwise                     *)
(*   register_user -> generate_response                                    *)
(*   generate_response -> END           if status is completed or failed   *)
(*                     -> process_input otherwise                          *)
(*                                                                         *)
(* The graph runtime is a library outside the repository.  The model takes *)
(* the contract the code relies on: the nodes are applied one after the    *)
(* other, along the edges, to the state dict handed to stream(); what a    *)
(* node assigns is what process_message sees afterwards; a run that has    *)
(* executed RecursionLimit nodes without reaching END raises into the      *)
(* except clause of process_message.                                       *)
(*                                                                         *)
(* A message is represented by what the code reads from it: the entities   *)
(* PerceptionAgent.extract_entities yields for it and whether its lower-   *)
(* cased text contains "yes" or "correct".  The text-generation service is *)
(* an oracle: each call returns a mapping with non-empty values, or        *)
(* nothing.                                                                *)
(*                                                                         *)
(* A session's state dict is a record; the nodes are operators from record *)
(* to record, as the methods are from dict to dict.                        *)
(***************************************************************************)
EXTENDS Integers, Sequences, FiniteSets, TLC

(***************************************************************************)
(* Bounds                                                                  *)
(***************************************************************************)
\* number of graph nodes one stream() call may execute
RecursionLimit == 7

(***************************************************************************)
(* Values                                                                  *)
(***************************************************************************)
Absent == "<absent>"

SessionIds == {"s1", "s2"}

required_fields == <<"name", "email", "phone", "address">>

RequiredSet == {"name", "email", "phone", "address"}

\* RegistrationStatus
INITIALIZED == "initialized"
GATHERING_INFO == "gathering_info"
PASSWORD_NEEDED == "password_needed"
CONFIRMING == "confirming"
COMPLETED == "completed"
FAILED == "failed"

Terminal == {COMPLETED, FAILED}

\* an entity mapping: a value or Absent for every key a mapping can hold
Entities(n, e, ph, a, pw, u) ==
    [name |-> n, email |-> e, phone |-> ph, address |-> a, password |-> pw,
     user_id |-> u]

NoEntities == Entities(Absent, Absent, Absent, Absent, Absent, Absent)

\* what extract_entities can yield: the name and the labelled password are
\* stripped after the match and can come out empty; the other values cannot
RuleEntities ==
    {Entities(n, e, ph, a, pw, Absent) :
        n \in {Absent, "", "Jane"}, e \in {Absent, "a@x.com", "b@x.com"},
        ph \in {Absent, "5551234"}, a \in {Absent, "12 Elm St"},
        pw \in {Absent, "", "Secret1"}}

\* what extract_entities_with_llm can yield: empty and null values are
\* filtered out, the keys are whatever the reply's JSON holds
LLMReplies ==
    {NoEntities,
     Entities("Jane", Absent, Absent, Absent, Absent, Absent),
     Entities(Absent, Absent, Absent, Absent, "Secret1", Absent),
     Entities(Absent, Absent, Absent, Absent, Absent, "user_x")}

\* a message: the entities the rules extract from it, and whether it confirms
Messages == [entities : RuleEntities, confirms : BOOLEAN]

\* the words the lower-cased text of a message may contain
Tokens == {"yes", "correct", "confirm", "ok"}

\* "yes" in message.lower() or "correct" in message.lower()
UserConfirmed(tokens) == "yes" \in tokens \/ "correct" \in tokens

TokenSets == {{}, {"yes"}, {"correct"}, {"confirm"}, {"ok"}, {"yes", "confirm"}}

\* messages told apart by the words they contain: nothing for the rules to
\* extract, a password, or the four fields and a password
TokenMessages ==
    {[entities |-> e, confirms |-> UserConfirmed(t), tokens |-> t] :
        e \in {NoEntities,
               Entities(Absent, Absent, Absent, Absent, "Secret1", Absent),
               Entities("Jane", "a@x.com", "5551234", "12 Elm St", "Secret1",
                        Absent)},
        t \in TokenSets}

ProfileKeys == RequiredSet \cup {"user_id"}

EmptyProfile == [k \in ProfileKeys |-> Absent]

\* a text: which sentence it is, and the values written out in it
Text(tag, shown) == [tag |-> tag, shown |-> shown]

\* the values a dict writes out: those of the keys it holds
Values(dict) == {dict[k] : k \in {x \in DOMAIN dict : dict[x] # Absent}}

\* the dict create_session puts into self.sessions
NewSessionState ==
    [user_profile |-> EmptyProfile, status |-> INITIALIZED,
     missing_fields |-> <<>>, password |-> "", system_message |-> Text("hello", {})]

(***************************************************************************)
(* ActionAgent                                                             *)
(***************************************************************************)
\* "field not in user_profile or not user_profile[field]"
IsMissing(profile, field) == profile[field] = Absent \/ profile[field] = ""

\* verify_profile_completeness testing "field not in user_profile" only
verify_presence_only(profile) ==
    LET missing == SelectSeq(required_fields,
                             LAMBDA field : profile[field] = Absent)
    IN  IF missing # <<>>
        THEN [status |-> "incomplete", missing_fields |-> missing]
        ELSE [status |-> "complete", missing_fields |-> <<>>]

verify_profile_completeness(profile) ==
    LET missing == SelectSeq(required_fields,
                             LAMBDA field : IsMissing(profile, field))
    IN  IF missing # <<>>
        THEN [status |-> "incomplete", missing_fields |-> missing]
        ELSE [status |-> "complete", missing_fields |-> <<>>]

\* the text ActionAgent.generate_response writes for a status: the
\* confirming text lists every item of user_profile, the completed text
\* names user_profile.get("user_id", "")
action_generate_response(st, user_profile, missing) ==
    CASE st = GATHERING_INFO /\ missing # <<>>  ->
           Text("still_need", {missing[i] : i \in 1..Len(missing)})
      [] st = GATHERING_INFO /\ missing = <<>>  -> Text("anything_else", {})
      [] st = PASSWORD_NEEDED                   -> Text("provide_password", {})
      [] st = CONFIRMING                        ->
           Text("is_this_correct", Values(user_profile))
      [] st = COMPLETED                         ->
           Text("completed", Values([k \in {"user_id"} |-> user_profile[k]]))
      [] OTHER                                  -> Text("how_can_i_help", {})

(***************************************************************************)
(* MemoryAgent                                                             *)
(***************************************************************************)
EmailExists(table, email) == \E u \in table : u.email = email

\* "user_" + uuid4: an id no row has
NewUserId(table) ==
    CASE Cardinality(table) = 0 -> "user_1"
      [] Cardinality(table) = 1 -> "user_2"
      [] Cardinality(table) = 2 -> "user_3"
      [] OTHER                  -> "user_4"

UserRow(id, user_data) ==
    [user_id |-> id, name |-> user_data.name, email |-> user_data.email,
     phone |-> user_data.phone, address |-> user_data.address,
     password_hash |-> user_data.password]

\* store_user, first half: SELECT user_id FROM users WHERE email = ?
store_lookup(table, user_data) ==
    user_data.email # Absent /\ EmailExists(table, user_data.email)

\* store_insert on a table whose email column is not UNIQUE
store_insert_not_unique(table, user_data) ==
    [status |-> "success", user_id |-> NewUserId(table),
     message |-> "User created successfully",
     table |-> table \cup {UserRow(NewUserId(table), user_data)}]

\* store_user, second half: INSERT INTO users; email is declared UNIQUE, so
\* the insert raises when a row with that email has appeared meanwhile
store_insert(table, user_data) ==
    IF EmailExists(table, user_data.email)
    THEN [status |-> "error", user_id |-> Absent,
          message |-> "Registration failed", table |-> table]
    ELSE [status |-> "success", user_id |-> NewUserId(table),
          message |-> "User created successfully",
          table |-> table \cup {UserRow(NewUserId(table), user_data)}]

\* store_user that inserts without looking the email up
store_user_blind(table, user_data) ==
    store_insert_not_unique(table, user_data)

\* store_user run alone
store_user(table, user_data) ==
    IF store_lookup(table, user_data)
    THEN [status |-> "error", user_id |-> Absent,
          message |-> "Email already exists", table |-> table]
    ELSE store_insert(table, user_data)

(***************************************************************************)
(* MemoryAgent: the sessions table                                         *)
(***************************************************************************)
NotCalled == [called |-> FALSE]

Called(value) == [called |-> TRUE, value |-> value]

\* the keys of the dict _generate_response hands to update_session
DataKeys == <<"user_profile", "status", "missing_fields", "system_message">>

\* json.dumps of a dict: the text of its items, one after the other
json_dumps(data) ==
    [i \in 1..Len(DataKeys) |-> <<DataKeys[i], data[DataKeys[i]]>>]

\* json.loads answering {} whatever the text
json_loads_nothing(text) == <<>>

\* json.loads: the dict of the items the text holds
json_loads(text) ==
    [k \in {text[i][1] : i \in DOMAIN text} |->
        text[CHOOSE i \in DOMAIN text : text[i][1] = k][2]]

\* the text "{}"
EmptyData == <<>>

\* INSERT INTO sessions (session_id, user_id, data, created_at)
memory_create_session(rows, session_id) ==
    [x \in DOMAIN rows \cup {session_id} |->
        IF x = session_id THEN EmptyData ELSE rows[x]]

\* UPDATE sessions SET data = ? WHERE session_id = ?
update_session(rows, session_id, data) ==
    IF session_id \in DOMAIN rows
    THEN [rows EXCEPT ![session_id] = json_dumps(data)]
    ELSE rows

\* SELECT * FROM sessions WHERE session_id = ?
retrieve_session(rows, session_id) ==
    IF session_id \in DOMAIN rows
    THEN [found |-> TRUE, session_id |-> session_id,
          data |-> json_loads(rows[session_id])]
    ELSE [found |-> FALSE]

\* the dict _generate_response saves: status is the enum's value
Snapshot(state) ==
    [user_profile |-> state.user_profile, status |-> state.status,
     missing_fields |-> state.missing_fields,
     system_message |-> state.system_message]

(***************************************************************************)
(* ActionAgent.register_user                                               *)
(***************************************************************************)
\* the user data without the password
user_data_without_password(state) ==
    [name |-> state.user_profile["name"],
     email |-> state.user_profile["email"],
     phone |-> state.user_profile["phone"],
     address |-> state.user_profile["address"],
     user_id |-> state.user_profile["user_id"],
     password |-> ""]

\* {**state["user_profile"], "password": state["password"]}
UserData(state) ==
    [name |-> state.user_profile["name"],
     email |-> state.user_profile["email"],
     phone |-> state.user_profile["phone"],
     address |-> state.user_profile["address"],
     user_id |-> state.user_profile["user_id"],
     password |-> state.password]

\* fault: store_user raised (the database could not be used)
action_register_user(table, user_data, fault) ==
    IF \E f \in RequiredSet : IsMissing(user_data, f)
    THEN [status |-> "error", user_id |-> Absent,
          message |-> "Missing required fields", table |-> table]
    ELSE IF fault
    THEN [status |-> "error", user_id |-> Absent,
          message |-> "Registration failed", table |-> table]
    ELSE store_user(table, user_data)

(***************************************************************************)
(* PerceptionAgent.process_input                                           *)
(***************************************************************************)
\* the rules' entities, or the service's reply when the rules found nothing
process_input(message, reply) ==
    IF message.entities = NoEntities THEN reply ELSE message.entities

(***************************************************************************)
(* OrchestrationAgent: the nodes of the graph                              *)
(***************************************************************************)
\* a merge that replaces user_profile by the entities
merge_replacing_profile(state, entities) ==
    [state EXCEPT
        !.user_profile = [k \in ProfileKeys |-> entities[k]],
        !.password = IF entities.password # Absent
                     THEN entities.password ELSE @]

\* "for key, value in entities.items()": password apart, the rest to profile
MergeEntities(state, entities) ==
    [state EXCEPT
        !.user_profile = [k \in ProfileKeys |->
            IF entities[k] # Absent THEN entities[k] ELSE @[k]],
        !.password = IF entities.password # Absent
                     THEN entities.password ELSE @]

initialize_state(state, entities) ==
    [MergeEntities(state, entities) EXCEPT
        !.status = GATHERING_INFO,
        !.system_message = Text("ill_help_you", {})]

\* _identify_missing_info that does not look at the password
identify_without_password(state) ==
    LET result == verify_profile_completeness(state.user_profile)
        checked == [state EXCEPT !.missing_fields = result.missing_fields]
    IN  IF result.status = "complete"
        THEN [checked EXCEPT !.status = CONFIRMING,
                             !.system_message = Text("ready_to_complete", {})]
        ELSE [checked EXCEPT !.system_message = Text("missing_fields", {})]

identify_missing_info(state) ==
    LET result == verify_profile_completeness(state.user_profile)
        checked == [state EXCEPT !.missing_fields = result.missing_fields]
    IN  IF result.status = "complete"
        THEN IF state.password # ""
             THEN [checked EXCEPT !.status = CONFIRMING,
                                  !.system_message = Text("ready_to_complete", {})]
             ELSE [checked EXCEPT !.status = PASSWORD_NEEDED,
                                  !.system_message = Text("provide_password", {})]
        ELSE [checked EXCEPT !.system_message = Text("missing_fields", {})]

process_user_input(state, entities) == MergeEntities(state, entities)

\* _register_user that does not look at the result's status
register_user_unchecked(state, result) ==
    [state EXCEPT !.status = COMPLETED,
                  !.user_profile["user_id"] = result.user_id,
                  !.system_message = Text(result.message, {})]

\* the state after _register_user, given what ActionAgent.register_user said
register_user(state, result) ==
    IF result.status = "success"
    THEN [state EXCEPT !.status = COMPLETED,
                       !.user_profile["user_id"] = result.user_id,
                       !.system_message = Text(result.message, {})]
    ELSE [state EXCEPT !.status = FAILED,
                       !.system_message = Text(result.message, {})]

generate_response(state) ==
    [state EXCEPT !.system_message =
        action_generate_response(state.status, state.user_profile,
                                 state.missing_fields)]

should_collect_info(state) == Len(state.missing_fields) > 0

\* _should_register that does not look at the message
should_register_unconfirmed(state, message) ==
    LET has_required_fields == Len(state.missing_fields) = 0
        has_password == state.password # ""
    IN  has_required_fields /\ has_password /\ state.status = CONFIRMING

\* _should_register that does not look at the status
should_register_any_status(state, message) ==
    LET has_required_fields == Len(state.missing_fields) = 0
        has_password == state.password # ""
        user_confirmed == message.confirms
    IN  has_required_fields /\ has_password /\ user_confirmed

should_register(state, message) ==
    LET has_required_fields == Len(state.missing_fields) = 0
        has_password == state.password # ""
        user_confirmed == message.confirms
    IN  has_required_fields /\ has_password /\ state.status = CONFIRMING
        /\ user_confirmed

(***************************************************************************)
(* The graph: one stream() call                                            *)
(***************************************************************************)
\* process_input() calls one stream() call can make before the limit
CallsPerTurn == (RecursionLimit + 1) \div 2

\* a run: the state dict, the users table, the node to execute next, the
\* nodes executed, the calls made to the text-generation service, the ids
\* the run's commits returned, and the dict it last saved with
\* update_session
StartRun(state, table) ==
    [state |-> state, table |-> table, node |-> "initialize",
     trace |-> <<>>, calls |-> 0, committed |-> {}, saved |-> NotCalled]

Reply(w, replies) ==
    replies[IF w.calls < Len(replies) THEN w.calls + 1 ELSE Len(replies)]

\* the edges out of process_input without the one to register_user
route_without_register(state, message) ==
    IF should_collect_info(state) THEN "identify_missing_info"
    ELSE "generate_response"

\* the conditional edge out of process_input
AfterProcessInput(state, message) ==
    IF should_register(state, message) THEN "register_user"
    ELSE IF should_collect_info(state) THEN "identify_missing_info"
    ELSE "generate_response"

\* generate_response with no edge to END
always_process_input(state) == "process_input"

\* the conditional edge out of generate_response
AfterGenerateResponse(state) ==
    IF state.status \in Terminal THEN "end" ELSE "process_input"

\* the node register_user, given what ActionAgent.register_user returned
Registered(w, result) ==
    [w EXCEPT !.state = register_user(w.state, result),
              !.table = result.table,
              !.committed = IF result.status = "success"
                            THEN @ \cup {result.user_id} ELSE @,
              !.node = "generate_response",
              !.trace = Append(@, "register_user")]

GraphStep(w, message, replies, fault) ==
    CASE w.node = "initialize" ->
           [w EXCEPT !.state = initialize_state(w.state,
                         process_input(message, Reply(w, replies))),
                     !.calls = @ + 1,
                     !.node = "identify_missing_info",
                     !.trace = Append(@, "initialize")]
      [] w.node = "identify_missing_info" ->
           [w EXCEPT !.state = identify_missing_info(w.state),
                     !.node = "process_input",
                     !.trace = Append(@, "identify_missing_info")]
      [] w.node = "process_input" ->
           LET after == process_user_input(w.state,
                            process_input(message, Reply(w, replies)))
           IN  [w EXCEPT !.state = after,
                         !.calls = @ + 1,
                         !.node = AfterProcessInput(after, message),
                         !.trace = Append(@, "process_input")]
      [] w.node = "register_user" ->
           Registered(w, action_register_user(w.table, UserData(w.state),
                                              fault))
      [] w.node = "generate_response" ->
           [w EXCEPT !.state = generate_response(w.state),
                     !.saved = Called(Snapshot(generate_response(w.state))),
                     !.node = AfterGenerateResponse(w.state),
                     !.trace = Append(@, "generate_response")]

Raised(w) == w.node # "end" /\ Len(w.trace) >= RecursionLimit

\* runs the nodes until END, until the recursion limit raises, or, when
\* pause is set, until register_user is the next node
RECURSIVE RunGraph(_, _, _, _, _)
RunGraph(w, message, replies, fault, pause) ==
    IF w.node = "end" \/ Raised(w) \/ (pause /\ w.node = "register_user")
    THEN w
    ELSE RunGraph(GraphStep(w, message, replies, fault), message, replies,
                  fault, pause)

(***************************************************************************)
(* OrchestrationAgent.process_message                                      *)
(***************************************************************************)
\* the state process_message stores back, given the dump taken before the
\* run; the two fallback texts quote the message instead of the state
StateAfterRun(w, initial, message) ==
    IF Raised(w)
    THEN [w.state EXCEPT !.system_message = Text("received_let_me_help", {})]
    ELSE IF w.state = initial
    THEN [w.state EXCEPT !.system_message =
              Text("received_please_provide", {})]
    ELSE w.state

FallbackTags == {"received_let_me_help", "received_please_provide"}

\* the values a reply to message writes out: a fallback text holds the
\* message, and with it the values the rules extract from it
Written(text, message) ==
    IF text.tag \in FallbackTags THEN Values(message.entities)
    ELSE text.shown

\* the response dict with user_id whenever user_profile holds one
response_with_profile_user_id(s, state) ==
    [session_id |-> s,
     message |-> state.system_message,
     status |-> state.status,
     user_id |-> state.user_profile["user_id"],
     missing_fields |-> state.missing_fields]

\* the response dict; a key that is left out is Absent
Response(s, state) ==
    [session_id |-> s,
     message |-> state.system_message,
     status |-> state.status,
     user_id |-> IF state.status = COMPLETED
                    /\ state.user_profile["user_id"] # Absent
                 THEN state.user_profile["user_id"] ELSE Absent,
     missing_fields |-> state.missing_fields]

(***************************************************************************)
(* State                                                                   *)
(***************************************************************************)
VARIABLES
    sessions,   \* OrchestrationAgent.sessions: session id -> state dict
    users,      \* the rows of the users table
    run,        \* per session: the stream() call that waits on the store
    commits,    \* history: per session, the user ids its commits returned
    last,       \* history: the last process_message call that returned
    session_rows, \* the sessions table: session id -> the data column
    fn_arg,     \* a function checked on its own: the argument drawn for it
    fn_result,  \* and what it returned for that argument
    chat        \* ChatInterface: the message queue and its worker

vars == <<sessions, users, run, commits, last, session_rows, fn_arg,
          fn_result, chat>>

\* race (history): how the session's last commit fared against a commit of
\* the same email that ran at the same time
\* no ChatInterface
NoChat == <<>>

IdleRun == [phase |-> "idle", race |-> "no"]

NoCall == [session |-> Absent, confirms |-> FALSE, trace |-> <<>>,
           response |-> Response(Absent, NewSessionState)]

Init ==
    /\ sessions = <<>>
    /\ users = {}
    /\ run = [s \in SessionIds |-> IdleRun]
    /\ commits = [s \in SessionIds |-> {}]
    /\ last = NoCall
    /\ session_rows = <<>>
    /\ fn_arg = <<>>
    /\ fn_result = NotCalled
    /\ chat = NoChat

Idle(s) == run[s].phase = "idle"

\* self.sessions with one state dict shared by every session
put_every_session(s, state) == [x \in DOMAIN sessions \cup {s} |-> state]

PutSession(s, state) ==
    [x \in DOMAIN sessions \cup {s} |-> IF x = s THEN state ELSE sessions[x]]

(***************************************************************************)
(* Operations                                                              *)
(***************************************************************************)
create_session(s) ==
    /\ s \notin DOMAIN sessions
    /\ sessions' = PutSession(s, NewSessionState)
    /\ UNCHANGED <<users, run, commits, last, session_rows, fn_arg,
                   fn_result, chat>>

\* what a finished run leaves behind in the agent and in the users table
Returned(s, w, initial, message) ==
    LET state == StateAfterRun(w, initial, message)
    IN  /\ sessions' = PutSession(s, state)
        /\ users' = w.table
        /\ commits' = [commits EXCEPT ![s] = @ \cup w.committed]
        /\ last' = [session |-> s, confirms |-> message.confirms,
                    trace |-> w.trace, response |-> Response(s, state)]
        /\ UNCHANGED <<fn_arg, fn_result>>

\* the sessions table is written and never read by the workflow: it is
\* followed in SpecStore and left out elsewhere
Return(s, w, initial, message) ==
    /\ Returned(s, w, initial, message)
    /\ UNCHANGED <<session_rows, chat>>

Executed(w, node) == \E i \in 1..Len(w.trace) : w.trace[i] = node

\* one whole call on the session dict `initial`
Turn(s, initial, message, replies, fault) ==
    LET w == RunGraph(StartRun(initial, users), message, replies, fault,
                      FALSE)
    IN  /\ Return(s, w, initial, message)
        /\ UNCHANGED run

process_message(s, message, replies, fault) ==
    /\ Idle(s)
    /\ s \in DOMAIN sessions
    /\ Turn(s, sessions[s], message, replies, fault)

\* an unknown session id served from the dict of a session that exists
process_message_unknown_borrowing(s, message, replies, fault) ==
    /\ Idle(s)
    /\ s \notin DOMAIN sessions
    /\ Turn(s, IF DOMAIN sessions = {} THEN NewSessionState
               ELSE sessions[CHOOSE x \in DOMAIN sessions : TRUE],
            message, replies, fault)

\* a session id that is not in self.sessions: s is the id create_session makes
process_message_unknown(s, message, replies, fault) ==
    /\ Idle(s)
    /\ s \notin DOMAIN sessions
    /\ Turn(s, NewSessionState, message, replies, fault)

(***************************************************************************)
(* One caller, one session: every message, the service answering anything  *)
(* it likes, the store free to fail                                        *)
(***************************************************************************)
OneSession == {"s1"}

\* the service is asked only when the rules found nothing
ReplySeqs(message, replies) ==
    IF message.entities = NoEntities
    THEN [1..CallsPerTurn -> replies]
    ELSE {[i \in 1..CallsPerTurn |-> NoEntities]}

\* the store is reached only by a confirming message
Faults(message) == IF message.confirms THEN BOOLEAN ELSE {FALSE}

Next ==
    \/ \E s \in OneSession : create_session(s)
    \/ \E s \in OneSession, m \in Messages :
         \E replies \in ReplySeqs(m, LLMReplies), fault \in Faults(m) :
            process_message(s, m, replies, fault)
    \/ \E s \in OneSession, m \in Messages :
         \E replies \in ReplySeqs(m, LLMReplies), fault \in Faults(m) :
            process_message_unknown(s, m, replies, fault)

Spec == Init /\ [][Next]_vars

(***************************************************************************)
(* Two sessions, one caller: the messages that carry everything or nothing, *)
(* the service down                                                        *)
(***************************************************************************)
WholeMessages ==
    {m \in Messages :
        \/ m.entities = NoEntities
        \/ /\ m.entities.name = "Jane"
           /\ m.entities.email # Absent
           /\ m.entities.phone # Absent
           /\ m.entities.address # Absent
           /\ m.entities.password = "Secret1"}

ServiceDown == {NoEntities}

NextTwo ==
    \/ \E s \in SessionIds : create_session(s)
    \/ \E s \in SessionIds, m \in WholeMessages :
         \E replies \in ReplySeqs(m, ServiceDown), fault \in Faults(m) :
            process_message(s, m, replies, fault)
    \/ \E s \in SessionIds, m \in WholeMessages :
         \E replies \in ReplySeqs(m, ServiceDown), fault \in Faults(m) :
            process_message_unknown(s, m, replies, fault)

SpecTwo == Init /\ [][NextTwo]_vars

(***************************************************************************)
(* Two callers, one session each, sharing the users table: a call stops    *)
(* before store_user's SELECT and before its INSERT, where the other       *)
(* caller's call can run                                                   *)
(***************************************************************************)
Paused(w) == w.node = "register_user" /\ ~Raised(w)

\* process_message up to the end of the call or up to register_user
call_begin(s, initial, message, replies) ==
    LET w == RunGraph(StartRun(initial, users), message, replies, FALSE,
                      TRUE)
    IN  IF Paused(w)
        THEN /\ sessions' = PutSession(s, w.state)
             /\ run' = [run EXCEPT ![s] =
                   [phase |-> "lookup", race |-> "no", w |-> w,
                    initial |-> initial, message |-> message,
                    replies |-> replies]]
             /\ UNCHANGED <<users, commits, last, session_rows, fn_arg,
                            fn_result, chat>>
        ELSE /\ Return(s, w, initial, message)
             /\ run' = [run EXCEPT ![s] = IdleRun]

race_process_message(s, message, replies) ==
    /\ Idle(s)
    /\ s \in DOMAIN sessions
    /\ call_begin(s, sessions[s], message, replies)

race_process_message_unknown(s, message, replies) ==
    /\ Idle(s)
    /\ s \notin DOMAIN sessions
    /\ call_begin(s, NewSessionState, message, replies)

\* the rest of the call once ActionAgent.register_user has returned result
call_end(s, result, race) ==
    LET r == run[s]
        w == RunGraph(Registered([r.w EXCEPT !.table = users], result),
                      r.message, r.replies, FALSE, FALSE)
    IN  /\ Return(s, w, r.initial, r.message)
        /\ run' = [run EXCEPT ![s] = [IdleRun EXCEPT !.race = race]]

\* ActionAgent.register_user up to the answer of store_user's SELECT
race_store_lookup(s) ==
    /\ run[s].phase = "lookup"
    /\ LET user_data == UserData(run[s].w.state)
       IN  IF \E f \in RequiredSet : IsMissing(user_data, f)
           THEN call_end(s, action_register_user(users, user_data, FALSE),
                         "no")
           ELSE IF store_lookup(users, user_data)
           THEN call_end(s, store_user(users, user_data), "no")
           ELSE /\ run' = [t \in SessionIds |->
                      IF t = s
                      THEN [run[s] EXCEPT !.phase = "insert",
                               !.race = IF \E x \in SessionIds \ {s} :
                                            /\ run[x].phase = "insert"
                                            /\ UserData(run[x].w.state).email
                                                 = user_data.email
                                         THEN "racing" ELSE "no"]
                      ELSE IF /\ run[t].phase = "insert"
                              /\ UserData(run[t].w.state).email
                                   = user_data.email
                      THEN [run[t] EXCEPT !.race = "racing"]
                      ELSE run[t]]
                /\ UNCHANGED <<sessions, users, commits, last, session_rows,
                               fn_arg, fn_result, chat>>

\* store_user's INSERT and commit, and the rest of the call
race_store_insert(s) ==
    /\ run[s].phase = "insert"
    /\ LET result == store_insert(users, UserData(run[s].w.state))
       IN  call_end(s, result,
                    IF run[s].race # "racing" THEN "no"
                    ELSE IF result.status = "success" THEN "won"
                    ELSE "lost")

NextRace ==
    \/ \E s \in SessionIds : create_session(s)
    \/ \E s \in SessionIds, m \in WholeMessages :
         \E replies \in ReplySeqs(m, ServiceDown) :
            race_process_message(s, m, replies)
    \/ \E s \in SessionIds, m \in WholeMessages :
         \E replies \in ReplySeqs(m, ServiceDown) :
            race_process_message_unknown(s, m, replies)
    \/ \E s \in SessionIds : race_store_lookup(s)
    \/ \E s \in SessionIds : race_store_insert(s)

SpecRace == Init /\ [][NextRace]_vars

(***************************************************************************)
(* verify_profile_completeness on its own: every profile dict of at most   *)
(* MaxItems items, in every insertion order                                *)
(***************************************************************************)
MaxItems == 4

ItemValues == {"", "Jane"}

\* the items of a dict, in insertion order: the keys are distinct
ProfileItems ==
    {items \in UNION {[1..n -> ProfileKeys \X ItemValues] : n \in 0..MaxItems} :
        \A i, j \in DOMAIN items : items[i][1] = items[j][1] => i = j}

HasKey(items, k) == \E i \in DOMAIN items : items[i][1] = k

\* the dict with these items
DictOf(items) ==
    [k \in ProfileKeys |->
        IF HasKey(items, k)
        THEN items[CHOOSE i \in DOMAIN items : items[i][1] = k][2]
        ELSE Absent]

InitValidate ==
    /\ sessions = <<>>
    /\ users = {}
    /\ run = [s \in SessionIds |-> IdleRun]
    /\ commits = [s \in SessionIds |-> {}]
    /\ last = NoCall
    /\ session_rows = <<>>
    /\ fn_arg \in ProfileItems
    /\ fn_result = NotCalled
    /\ chat = NoChat

call_verify_profile_completeness ==
    /\ ~fn_result.called
    /\ fn_result' = Called(verify_profile_completeness(DictOf(fn_arg)))
    /\ UNCHANGED <<sessions, users, run, commits, last, session_rows,
                   fn_arg, chat>>

NextValidate == call_verify_profile_completeness

SpecValidate == InitValidate /\ [][NextValidate]_vars

(***************************************************************************)
(* One caller, one session, the service down, and the sessions table:      *)
(* create_session inserts the session's row, _generate_response updates it *)
(***************************************************************************)
\* the sessions table once session s has its row
RowsWith(s) ==
    IF s \in DOMAIN session_rows THEN session_rows
    ELSE memory_create_session(session_rows, s)

\* the sessions table after a run: the last dict the run saved
Saved(s, w) ==
    session_rows' = IF w.saved.called
                    THEN update_session(RowsWith(s), s, w.saved.value)
                    ELSE RowsWith(s)

create_session_row(s) ==
    /\ s \notin DOMAIN sessions
    /\ sessions' = PutSession(s, NewSessionState)
    /\ session_rows' = memory_create_session(session_rows, s)
    /\ UNCHANGED <<users, run, commits, last, fn_arg, fn_result, chat>>

SavingTurn(s, initial, message, replies, fault) ==
    LET w == RunGraph(StartRun(initial, users), message, replies, fault,
                      FALSE)
    IN  /\ Returned(s, w, initial, message)
        /\ Saved(s, w)
        /\ UNCHANGED <<run, chat>>

process_message_saving(s, message, replies, fault) ==
    /\ Idle(s)
    /\ s \in DOMAIN sessions
    /\ SavingTurn(s, sessions[s], message, replies, fault)

process_message_unknown_saving(s, message, replies, fault) ==
    /\ Idle(s)
    /\ s \notin DOMAIN sessions
    /\ SavingTurn(s, NewSessionState, message, replies, fault)

NextStore ==
    \/ \E s \in OneSession : create_session_row(s)
    \/ \E s \in OneSession, m \in Messages :
         \E replies \in ReplySeqs(m, ServiceDown), fault \in Faults(m) :
            process_message_saving(s, m, replies, fault)
    \/ \E s \in OneSession, m \in Messages :
         \E replies \in ReplySeqs(m, ServiceDown), fault \in Faults(m) :
            process_message_unknown_saving(s, m, replies, fault)

SpecStore == Init /\ [][NextStore]_vars

(***************************************************************************)
(* Reading a step                                                          *)
(***************************************************************************)

\* the step is a process_message call on session s that returned
TurnStep(s) ==
    /\ last'.session = s
    /\ s \in DOMAIN sessions'
    /\ \A x \in DOMAIN sessions' \ DOMAIN sessions :
          sessions'[x].status # INITIALIZED

(***************************************************************************)
(* Terminal statuses                                                       *)
(***************************************************************************)
\* C1: once a session's status is completed or failed, a process_message
\* call on it, whatever the message, leaves the status as it was
C1_TerminalStatusIsFinal ==
    [][\A s \in DOMAIN sessions :
          (sessions[s].status \in Terminal /\ TurnStep(s))
             => sessions'[s].status = sessions[s].status]_vars

\* C2: over any sequence of calls, a session creates at most one user row
C2_AtMostOneUserPerSession ==
    \A s \in SessionIds : Cardinality(commits[s]) <= 1

\* C3: a confirming message sent to a completed session adds no user row and
\* leaves user_profile["user_id"] as the commit set it
C3_ReconfirmIsIdempotent ==
    [][\A s \in DOMAIN sessions :
          (sessions[s].status = COMPLETED /\ TurnStep(s) /\ last'.confirms)
             => /\ users' = users
                /\ sessions'[s].user_profile["user_id"]
                     = sessions[s].user_profile["user_id"]]_vars

(***************************************************************************)
(* The users table                                                         *)
(***************************************************************************)
\* C4: two commits of the same email that run at the same time end with one
\* session completed and the other failed, and the table never holds two
\* rows with one email
C4_RaceHasOneWinner ==
    /\ \A u, v \in users : u.email = v.email => u = v
    /\ \A s \in SessionIds :
          /\ run[s].race = "won" => sessions[s].status = COMPLETED
          /\ run[s].race = "lost" => sessions[s].status = FAILED
    /\ \A s, t \in SessionIds :
          (s # t /\ run[s].race \in {"won", "lost"}
                 /\ run[t].race \in {"won", "lost"})
             => run[s].race # run[t].race

C4_Witness ==
    \E s, t \in SessionIds : run[s].race = "won" /\ run[t].race = "lost"

\* C5: a call that commits a profile whose email a user row already holds
\* ends with status failed and leaves the users table as it was
C5_DuplicateEmailFails ==
    [][\A s \in SessionIds :
          (/\ TurnStep(s)
           /\ Executed(last', "register_user")
           /\ EmailExists(users, sessions'[s].user_profile["email"]))
             => /\ sessions'[s].status = FAILED
                /\ last'.response.user_id = Absent
                /\ users' = users]_vars

C5_Witness ==
    \E s \in DOMAIN sessions :
        /\ last.session = s
        /\ Executed(last, "register_user")
        /\ sessions[s].status = FAILED
        /\ \E u \in users :
              /\ u.email = sessions[s].user_profile["email"]
              /\ u.user_id \notin commits[s]

(***************************************************************************)
(* Status and completeness                                                 *)
(***************************************************************************)
\* every state dict a call passes through, node after node
RECURSIVE RunStates(_, _, _, _)
RunStates(w, message, replies, fault) ==
    IF w.node = "end" \/ Raised(w)
    THEN {w.state}
    ELSE {w.state} \cup RunStates(GraphStep(w, message, replies, fault),
                                  message, replies, fault)

ConfirmingIsComplete(state) ==
    state.status = CONFIRMING
       => /\ state.missing_fields = <<>>
          /\ \A f \in RequiredSet : state.user_profile[f] \notin {Absent, ""}
          /\ state.password # ""

\* C6: whenever a session's status is confirming, between calls and between
\* the nodes of a call, its missing_fields is empty, its four required
\* fields are non-empty and its password is non-empty
C6_ConfirmingIsComplete ==
    \A s \in DOMAIN sessions :
        /\ ConfirmingIsComplete(sessions[s])
        /\ \A m \in Messages :
              \A replies \in ReplySeqs(m, LLMReplies), fault \in Faults(m) :
                 \A state \in RunStates(StartRun(sessions[s], users), m,
                                        replies, fault) :
                    ConfirmingIsComplete(state)

C6_Witness ==
    \E s \in DOMAIN sessions :
        /\ sessions[s].status = CONFIRMING
        /\ last.session = s

RowOf(state, id) ==
    [user_id |-> id, name |-> state.user_profile["name"],
     email |-> state.user_profile["email"],
     phone |-> state.user_profile["phone"],
     address |-> state.user_profile["address"],
     password_hash |-> state.password]

\* C7: a call ends with status completed only if it added the user row of
\* the session's profile, with the id in user_profile["user_id"]; and the
\* row with that id is in the table whenever the status is completed
C7_CompletedOnlyByCommit ==
    /\ [](\A s \in DOMAIN sessions :
             sessions[s].status = COMPLETED
                => \E u \in users :
                      u.user_id = sessions[s].user_profile["user_id"])
    /\ [][\A s \in SessionIds :
             (TurnStep(s) /\ sessions'[s].status = COMPLETED)
                => /\ Executed(last', "register_user")
                   /\ RowOf(sessions'[s],
                            sessions'[s].user_profile["user_id"])
                         \in users' \ users]_vars

C7_Witness ==
    \E s \in DOMAIN sessions :
        /\ sessions[s].status = COMPLETED
        /\ last.session = s

\* the required fields absent from or empty in a profile, in the fixed order
AbsentOrEmpty(profile) ==
    SelectSeq(required_fields, LAMBDA f : profile[f] \in {Absent, ""})

Position(f) == CHOOSE i \in 1..Len(required_fields) : required_fields[i] = f

ItemMissing(items, f) ==
    \A i \in DOMAIN items : items[i][1] = f => items[i][2] = ""

\* C9: verify_profile_completeness answers "complete" exactly when no
\* required field is absent or empty, and otherwise lists exactly the absent
\* or empty required fields, in the order name, email, phone, address
C9_VerifyReportsMissing ==
    fn_result.called
       => LET missing == fn_result.value.missing_fields
          IN  /\ fn_result.value.status = "complete"
                    <=> \A f \in RequiredSet : ~ItemMissing(fn_arg, f)
              /\ fn_result.value.status \in {"complete", "incomplete"}
              /\ \A f \in RequiredSet :
                    ItemMissing(fn_arg, f)
                       <=> \E i \in 1..Len(missing) : missing[i] = f
              /\ \A i \in 1..Len(missing) : missing[i] \in RequiredSet
              /\ \A i, j \in 1..Len(missing) :
                    i < j => Position(missing[i]) < Position(missing[j])

C9_Witness ==
    /\ fn_result.called
    /\ fn_result.value.missing_fields = <<"email", "address">>
    /\ Len(fn_arg) = 4
    /\ fn_arg[1][1] = "address"
    /\ fn_arg[1][2] = ""

StatusFor(state) ==
    IF state.missing_fields # <<>> THEN GATHERING_INFO
    ELSE IF state.password = "" THEN PASSWORD_NEEDED
    ELSE CONFIRMING

RECURSIVE RunWs(_, _, _, _)
RunWs(w, message, replies, fault) ==
    IF w.node = "end" \/ Raised(w)
    THEN {w}
    ELSE {w} \cup RunWs(GraphStep(w, message, replies, fault), message,
                        replies, fault)

Count(trace, node) ==
    Cardinality({i \in 1..Len(trace) : trace[i] = node})

Stages == {"initialize", "identify_missing_info", "process_input",
           "register_user", "generate_response"}

\* the call ended through the except clause of process_message
CaughtException(call) == call.response.message.tag = "received_let_me_help"

\* C11: every call runs each stage at most once for its message and ends
\* without an exception, whatever status it leaves the session in
C11_EachStageOncePerTurn ==
    [][\A s \in SessionIds :
          TurnStep(s)
             => /\ \A node \in Stages : Count(last'.trace, node) <= 1
                /\ ~CaughtException(last')]_vars

\* the status after the status decision of a call: initialize, then
\* identify_missing_info
Decided(state, message, reply) ==
    identify_missing_info(initialize_state(state,
                                           process_input(message, reply)))

\* C12: a call whose status is confirming after the status decision, and
\* whose message contains "yes", "correct", "confirm" or "ok", attempts the
\* commit
C12_AnyTokenCommits ==
    \A s \in DOMAIN sessions :
        \A m \in TokenMessages :
           \A replies \in ReplySeqs(m, ServiceDown) :
              (/\ Decided(sessions[s], m, replies[1]).status = CONFIRMING
               /\ m.tokens # {})
                 => Executed(RunGraph(StartRun(sessions[s], users), m,
                                      replies, FALSE, FALSE),
                             "register_user")

\* C13: a call reaches the commit only with status confirming and a message
\* that contains a confirmation word; a call whose message contains none
\* adds no user row, whatever the session
C13_CommitOnlyOnConfirmation ==
    \A s \in DOMAIN sessions :
        \A m \in TokenMessages :
           \A replies \in ReplySeqs(m, LLMReplies), fault \in Faults(m) :
              LET ws == RunWs(StartRun(sessions[s], users), m, replies, fault)
              IN  /\ \A w \in ws :
                        (w.node = "register_user" /\ ~Raised(w))
                           => /\ w.state.status = CONFIRMING
                              /\ m.tokens \cap Tokens # {}
                  /\ m.tokens = {}
                        => \A w \in ws : /\ w.table = users
                                         /\ w.committed = {}

C13_Witness ==
    \E s \in DOMAIN sessions :
        /\ last.session = s
        /\ last.confirms
        /\ Executed(last, "register_user")
        /\ last.response.user_id \in commits[s]

\* C14: a call attempts the commit at most once, and after the commit it
\* only renders and ends (or stops at the step limit): it never goes back
\* to process_input or to the commit
C14_OneCommitPerTurn ==
    [][\A s \in SessionIds :
          TurnStep(s)
             => LET trace == last'.trace
                IN  /\ Count(trace, "register_user") <= 1
                    /\ \A i \in 1..Len(trace) :
                          trace[i] = "register_user"
                             => \/ /\ i + 1 = Len(trace)
                                   /\ trace[i + 1] = "generate_response"
                                   /\ ~CaughtException(last')
                                \/ /\ i = Len(trace)
                                   /\ i >= RecursionLimit]_vars

\* the commit came after identify_missing_info had run twice
C14_Witness ==
    /\ Len(last.trace) = 7
    /\ last.trace[6] = "register_user"
    /\ last.trace[7] = "generate_response"
    /\ last.confirms

\* a text that contains "yes": the rules extract nothing from it or take a
\* word of it for the name
YesMessages ==
    {[entities |-> e, confirms |-> TRUE] :
        e \in {NoEntities,
               Entities("Jane", Absent, Absent, Absent, Absent, Absent)}}

ReadyToConfirm(s) ==
    /\ sessions[s].status = CONFIRMING
    /\ \A f \in RequiredSet : ~IsMissing(sessions[s].user_profile, f)
    /\ sessions[s].password # ""
    /\ ~EmailExists(users, sessions[s].user_profile["email"])

\* C15: on a session that is confirming, with the four fields and a
\* password, whose email no user row holds, "yes" with a working store adds
\* exactly one user row, ends with status completed, and the response's
\* user_id is the id of that row
C15_YesCompletes ==
    \A s \in DOMAIN sessions :
        ReadyToConfirm(s)
           => \A m \in YesMessages :
                 \A replies \in ReplySeqs(m, LLMReplies) :
                    LET w == RunGraph(StartRun(sessions[s], users), m,
                                      replies, FALSE, FALSE)
                        state == StateAfterRun(w, sessions[s], m)
                    IN  /\ Cardinality(w.table \ users) = 1
                        /\ users \subseteq w.table
                        /\ state.status = COMPLETED
                        /\ \A u \in w.table \ users :
                              /\ Response(s, state).user_id = u.user_id
                              /\ u.email = sessions[s].user_profile["email"]

C15_Witness ==
    \E s \in DOMAIN sessions :
        /\ ReadyToConfirm(s)
        /\ last.session = s
        /\ \E m \in YesMessages :
              \E replies \in ReplySeqs(m, ServiceDown) :
                 RunGraph(StartRun(sessions[s], users), m, replies, FALSE,
                          FALSE).committed # {}

(***************************************************************************)
(* The reply                                                               *)
(***************************************************************************)
\* C16: the response of a call carries user_id exactly when the status at
\* the end of the call is completed
C16_UserIdIffCompleted ==
    last.session # Absent
       => (last.response.user_id # Absent
              <=> last.response.status = COMPLETED)

C16_Witness ==
    /\ last.session # Absent
    /\ last.response.status = COMPLETED
    /\ last.response.user_id \in commits[last.session]

\* what ActionAgent.register_user and store_user give as the reason
FailureReasons ==
    {"Missing required fields", "Registration failed", "Email already exists"}

\* C17: a call that ends with status failed because its commit failed
\* replies with the failure reason
C17_FailedReplyIsReason ==
    [][\A s \in SessionIds :
          (/\ TurnStep(s)
           /\ Executed(last', "register_user")
           /\ sessions'[s].status = FAILED)
             => last'.response.message.tag \in FailureReasons]_vars

\* C18: a call whose workflow raised ends with status failed
C18_ExceptionFailsSession ==
    [][\A s \in SessionIds :
          (TurnStep(s) /\ CaughtException(last'))
             => sessions'[s].status = FAILED]_vars

\* a call in which extraction yields nothing at every stage
NothingExtracted == [i \in 1..CallsPerTurn |-> NoEntities]

\* C19: when extraction fails during a call, the four fields and the password
\* stay as they were, and the call goes through validation, the status
\* decision and the rendering of the reply
C19_ExtractionFailureIsHarmless ==
    \A s \in DOMAIN sessions :
        \A m \in {x \in Messages : x.entities = NoEntities} :
           \A fault \in Faults(m) :
              LET w == RunGraph(StartRun(sessions[s], users), m,
                                NothingExtracted, fault, FALSE)
                  state == StateAfterRun(w, sessions[s], m)
              IN  /\ \A f \in RequiredSet :
                        state.user_profile[f] = sessions[s].user_profile[f]
                  /\ state.password = sessions[s].password
                  /\ Executed(w, "identify_missing_info")
                  /\ Executed(w, "generate_response")
                  /\ ~Raised(w)

\* C20: the reply of a call that ends with status confirming contains the
\* name, the email, the phone and the address of the profile
C20_ConfirmingReplyShowsProfile ==
    \A s \in DOMAIN sessions :
        \A m \in Messages :
           \A replies \in ReplySeqs(m, ServiceDown), fault \in Faults(m) :
              LET w == RunGraph(StartRun(sessions[s], users), m, replies,
                                fault, FALSE)
                  state == StateAfterRun(w, sessions[s], m)
              IN  state.status = CONFIRMING
                     => \A f \in RequiredSet :
                           state.user_profile[f]
                              \in Written(state.system_message, m)

(***************************************************************************)
(* The password, the profile, the sessions table                           *)
(***************************************************************************)
\* C21: the password is in no reply process_message returns, the fallback
\* replies included, nor in the profile, nor in the dict saved to the
\* sessions table
C21_PasswordNeverEchoed ==
    \A s \in DOMAIN sessions :
        \A m \in Messages :
           \A replies \in ReplySeqs(m, ServiceDown), fault \in Faults(m) :
              LET w == RunGraph(StartRun(sessions[s], users), m, replies,
                                fault, FALSE)
                  state == StateAfterRun(w, sessions[s], m)
              IN  state.password # ""
                     => /\ state.password
                              \notin Written(state.system_message, m)
                        /\ state.password \notin Values(state.user_profile)
                        /\ w.saved.called
                             => state.password \notin
                                   Values(w.saved.value.user_profile)
                                      \cup w.saved.value.system_message.shown

\* the entities process_input yields at the i-th call of a run
EntitiesAt(message, replies, i) ==
    process_input(message,
                  replies[IF i < Len(replies) THEN i ELSE Len(replies)])

\* some call of the run yields an extraction for key k
Extracted(w, message, replies, k) ==
    \E i \in 1..w.calls : EntitiesAt(message, replies, i)[k] # Absent

\* C22 as stated: a call removes no key of user_profile, and changes the
\* value of a key only if the message yields an extraction for that key
C22_ProfileChangesByExtraction ==
    \A s \in DOMAIN sessions :
        \A m \in Messages :
           \A replies \in ReplySeqs(m, LLMReplies), fault \in Faults(m) :
              LET w == RunGraph(StartRun(sessions[s], users), m, replies,
                                fault, FALSE)
                  before == sessions[s].user_profile
                  after == StateAfterRun(w, sessions[s], m).user_profile
              IN  \A k \in ProfileKeys :
                     /\ before[k] # Absent => after[k] # Absent
                     /\ after[k] # before[k] => Extracted(w, m, replies, k)

\* C22: a call removes no key of user_profile, and changes the value of a
\* key only if the message yields an extraction for that key, or the key is
\* user_id and the call's commit succeeded
C22_ProfileChangesByExtractionOrCommit ==
    \A s \in DOMAIN sessions :
        \A m \in Messages :
           \A replies \in ReplySeqs(m, LLMReplies), fault \in Faults(m) :
              LET w == RunGraph(StartRun(sessions[s], users), m, replies,
                                fault, FALSE)
                  before == sessions[s].user_profile
                  after == StateAfterRun(w, sessions[s], m).user_profile
              IN  \A k \in ProfileKeys :
                     /\ before[k] # Absent => after[k] # Absent
                     /\ after[k] # before[k]
                           => \/ Extracted(w, m, replies, k)
                              \/ /\ k = "user_id"
                                 /\ after[k] \in w.committed

\* a session whose email was overwritten by a later extraction and whose
\* user_id the commit wrote
C22_Witness ==
    \E s \in DOMAIN sessions :
        /\ last.session = s
        /\ sessions[s].user_profile["email"] = "b@x.com"
        /\ sessions[s].user_profile["user_id"] \in commits[s]
        /\ \E u \in users : u.email = "a@x.com"

\* "just checking in": the last name rule takes the whole text for the name
JustCheckingIn ==
    [entities |-> Entities("just checking in", Absent, Absent, Absent,
                           Absent, Absent),
     confirms |-> FALSE]

\* C23: "just checking in", sent to a session with missing fields, leaves
\* user_profile, password and missing_fields as they were, with status
\* gathering_info, and the call returns a reply without an exception
C23_NothingToExtract ==
    \A s \in DOMAIN sessions :
        sessions[s].missing_fields # <<>>
           => LET w == RunGraph(StartRun(sessions[s], users), JustCheckingIn,
                                NothingExtracted, FALSE, FALSE)
                  state == StateAfterRun(w, sessions[s], JustCheckingIn)
              IN  /\ state.user_profile = sessions[s].user_profile
                  /\ state.password = sessions[s].password
                  /\ state.missing_fields = sessions[s].missing_fields
                  /\ state.status = GATHERING_INFO
                  /\ ~Raised(w)

SavedKeys == {"user_profile", "status", "missing_fields"}

\* what retrieve_session gives holds, under every key of SavedKeys, the
\* value data holds
SameSnapshot(got, data) ==
    /\ got.found
    /\ \A k \in SavedKeys : k \in DOMAIN got.data /\ got.data[k] = data[k]

C25_StoreFollowsSession ==
    [][\A s \in SessionIds :
          TurnStep(s)
             => SameSnapshot(retrieve_session(session_rows', s),
                             Snapshot(sessions'[s]))]_vars

\* C26: a call on a session that is completed or failed leaves user_profile,
\* password and missing_fields as they were and does not reach the commit
C26_TerminalTurnChangesNothing ==
    [][\A s \in DOMAIN sessions :
          (sessions[s].status \in Terminal /\ TurnStep(s))
             => /\ sessions'[s].user_profile = sessions[s].user_profile
                /\ sessions'[s].password = sessions[s].password
                /\ sessions'[s].missing_fields = sessions[s].missing_fields
                /\ ~Executed(last', "register_user")
                /\ users' = users]_vars

\* C27: a stage moves the status to completed or failed only from
\* confirming, and only register_user does; it moves it to failed only when
\* the commit added no user row
C27_TerminalOnlyFromConfirming ==
    \A s \in DOMAIN sessions :
        \A m \in Messages :
           \A replies \in ReplySeqs(m, LLMReplies), fault \in Faults(m) :
              \A w \in RunWs(StartRun(sessions[s], users), m, replies,
                             fault) :
                 (w.node # "end" /\ ~Raised(w))
                    => LET next == GraphStep(w, m, replies, fault)
                       IN  (/\ next.state.status \in Terminal
                            /\ next.state.status # w.state.status)
                              => /\ w.state.status = CONFIRMING
                                 /\ w.node = "register_user"
                                 /\ next.state.status = FAILED
                                       <=> next.table = w.table

\* a commit that failed on a session that was not failed before
C27_Witness ==
    \E s \in DOMAIN sessions :
        /\ last.session = s
        /\ sessions[s].status = FAILED
        /\ Executed(last, "register_user")
        /\ commits[s] = {}

\* C28: a step changes the state dict of at most one session, the one whose
\* call is running; another session's call sees of it only the users table
C28_SessionsAreSeparate ==
    [][\A t \in DOMAIN sessions :
          sessions'[t] # sessions[t]
             => /\ last'.session = t \/ run'[t] # run[t]
                /\ \A x \in DOMAIN sessions \ {t} :
                      sessions'[x] = sessions[x]]_vars

\* both sessions have come some way, one of them further
C28_Witness ==
    /\ DOMAIN sessions = SessionIds
    /\ sessions["s1"].status = COMPLETED
    /\ sessions["s2"].status = FAILED
    /\ sessions["s1"].user_profile # sessions["s2"].user_profile

(***************************************************************************)
(* PerceptionAgent.extract_entities on its own                             *)
(*                                                                         *)
(* The regular expression engine is a library.  A text is given by what    *)
(* each re.search of extract_entities finds in it: for every rule of every *)
(* rule list NoMatch or the group the rule captured, and the text itself   *)
(* for the standalone password.  Strings are sequences of characters; a    *)
(* name is the sequence of its words, which is what strip() and split()    *)
(* leave of it.  What the code does with a group (strip, cleanup, filter,  *)
(* break) is computed.  At most MaxMatches rules of a list match one text. *)
(***************************************************************************)
MaxMatches == 3

NoMatch == [matched |-> FALSE]

Match(group) == [matched |-> TRUE, group |-> group]

Whitespace == {" "}

Digits == {"0", "1", "2", "3", "4", "5", "6", "7", "8", "9"}

Letters ==
    {"a", "b", "c", "d", "e", "f", "g", "h", "i", "j", "k", "l",
     "m", "n", "o", "p", "q", "r", "s", "t", "u", "v", "w", "x", "y", "z"}
    \cup {"A", "B", "C", "D", "E", "F", "G", "H", "I", "J", "K", "L",
          "M", "N", "O", "P", "Q", "R", "S", "T", "U", "V", "W", "X", "Y", "Z"}

\* [A-Za-z0-9\!\@\#\$\%\^\&\*\(\)]
PasswordChars ==
    Letters \cup Digits \cup {"!", "@", "#", "$", "%", "^", "&", "*", "(", ")"}

RECURSIVE lstrip(_)
lstrip(chars) ==
    IF chars # <<>> /\ Head(chars) \in Whitespace
    THEN lstrip(Tail(chars)) ELSE chars

RECURSIVE rstrip(_)
rstrip(chars) ==
    IF chars # <<>> /\ chars[Len(chars)] \in Whitespace
    THEN rstrip(SubSeq(chars, 1, Len(chars) - 1)) ELSE chars

\* str.strip()
strip(chars) == rstrip(lstrip(chars))

\* str.lower() of a word
lower(word) ==
    CASE word = "Jane" -> "jane"
      [] word = "Roe" -> "roe"
      [] word = "Please" -> "please"
      [] word = "Bob" -> "bob"
      [] word = "NULL" -> "null"
      [] word = "None" -> "none"
      [] word = "N/A" -> "n/a"
      [] OTHER -> word

non_name_words ==
    {"user", "account", "profile", "please", "would", "could", "want",
     "like", "hoping", "trying", "looking", "ready", "here", "interested",
     "need", "should"}

\* "not any(word == name.lower() or word in name.lower().split() ...)"
name_accepted(name) ==
    ~\E word \in non_name_words :
        \E i \in DOMAIN name : lower(name[i]) = word

IsDigit(char) == char \in Digits

KeptInPhone(char) == char \in Digits \cup {"+", "-", "(", ")"}

\* re.sub(r'[^\d\+\-\(\)]', '', phone)
phone_cleanup(phone) == SelectSeq(strip(phone), KeptInPhone)

\* "len(re.sub(r'[^\d]', '', phone)) >= 7"
phone_accepted(phone) == Len(SelectSeq(phone_cleanup(phone), IsDigit)) >= 7

\* "len(address) > 5 and any(char.isdigit() for char in address)"
address_accepted(address) ==
    /\ Len(strip(address)) > 5
    /\ \E i \in DOMAIN strip(address) : IsDigit(strip(address)[i])

\* entities[key] = value
Put(entities, key, value) == (key :> value) @@ entities

NoDict == <<>>

\* "for pattern in name_patterns", from the i-th pattern on
RECURSIVE name_loop(_, _, _)
name_loop(entities, matches, i) ==
    IF i > Len(matches) THEN entities
    ELSE IF matches[i].matched /\ name_accepted(matches[i].group)
         THEN Put(entities, "name", matches[i].group)
         ELSE name_loop(entities, matches, i + 1)

\* the first part of a comma-separated text, when no name rule gave a name
comma_name(entities, text) ==
    IF /\ "name" \notin DOMAIN entities
       /\ text.first_part.matched
       /\ Len(text.first_part.group) <= 3
       /\ name_accepted(text.first_part.group)
    THEN Put(entities, "name", text.first_part.group)
    ELSE entities

\* "for pattern in email_patterns"
RECURSIVE email_loop(_, _, _)
email_loop(entities, matches, i) ==
    IF i > Len(matches) THEN entities
    ELSE IF matches[i].matched
         THEN Put(entities, "email", matches[i].group)
         ELSE email_loop(entities, matches, i + 1)

\* a phone loop that takes the first match, whatever its digits
RECURSIVE phone_loop_unfiltered(_, _, _)
phone_loop_unfiltered(entities, matches, i) ==
    IF i > Len(matches) THEN entities
    ELSE IF matches[i].matched
         THEN Put(entities, "phone", phone_cleanup(matches[i].group))
         ELSE phone_loop_unfiltered(entities, matches, i + 1)

\* "for pattern in phone_patterns"
RECURSIVE phone_loop(_, _, _)
phone_loop(entities, matches, i) ==
    IF i > Len(matches) THEN entities
    ELSE IF matches[i].matched /\ phone_accepted(matches[i].group)
         THEN Put(entities, "phone", phone_cleanup(matches[i].group))
         ELSE phone_loop(entities, matches, i + 1)

\* "for pattern in address_patterns"
RECURSIVE address_loop(_, _, _)
address_loop(entities, matches, i) ==
    IF i > Len(matches) THEN entities
    ELSE IF matches[i].matched /\ address_accepted(matches[i].group)
         THEN Put(entities, "address", strip(matches[i].group))
         ELSE address_loop(entities, matches, i + 1)

address_keywords ==
    <<"street", "avenue", "road", "lane", "drive", "boulevard", "court",
      "plaza", "parkway", "place", "way", "circle", "highway", "route",
      "building", "apartment">>

\* "for keyword in address_keywords": group(0), longer than 5
RECURSIVE keyword_loop(_, _, _)
keyword_loop(entities, matches, i) ==
    IF i > Len(matches) THEN entities
    ELSE IF matches[i].matched /\ Len(strip(matches[i].group)) > 5
         THEN Put(entities, "address", strip(matches[i].group))
         ELSE keyword_loop(entities, matches, i + 1)

address_by_keyword(entities, text) ==
    IF "address" \notin DOMAIN entities
    THEN keyword_loop(entities, text.keyword, 1)
    ELSE entities

\* "123 Main St" and the like
numbered_street(entities, text) ==
    IF "address" \notin DOMAIN entities /\ text.street.matched
    THEN Put(entities, "address", strip(text.street.group))
    ELSE entities

\* "for pattern in password_patterns"
RECURSIVE password_loop(_, _, _)
password_loop(entities, matches, i) ==
    IF i > Len(matches) THEN entities
    ELSE IF matches[i].matched
         THEN Put(entities, "password", strip(matches[i].group))
         ELSE password_loop(entities, matches, i + 1)

\* re.match(r'^[A-Za-z0-9\!\@\#\$\%\^\&\*\(\)]{6,20}$', potential_password)
PasswordShaped(chars) ==
    /\ Len(chars) >= 6
    /\ Len(chars) <= 20
    /\ \A i \in DOMAIN chars : chars[i] \in PasswordChars

\* a standalone password taken whatever else was extracted
standalone_password_unguarded(entities, text) ==
    IF "password" \notin DOMAIN entities /\ PasswordShaped(strip(text.raw))
    THEN Put(entities, "password", strip(text.raw))
    ELSE entities

\* "if it's a single word and no other entities extracted"
standalone_password(entities, text) ==
    IF /\ "password" \notin DOMAIN entities
       /\ ~\E k \in {"name", "email", "phone", "address"} :
              k \in DOMAIN entities
       /\ PasswordShaped(strip(text.raw))
    THEN Put(entities, "password", strip(text.raw))
    ELSE entities

extract_entities(text) ==
    LET named == comma_name(name_loop(NoDict, text.name, 1), text)
        mailed == email_loop(named, text.email, 1)
        phoned == phone_loop(mailed, text.phone, 1)
        addressed == address_loop(phoned, text.address, 1)
        placed == numbered_street(address_by_keyword(addressed, text), text)
        labelled == password_loop(placed, text.password, 1)
    IN  standalone_password(labelled, text)

\* groups and texts, character by character
E1 == "a@x.com"

E2 == "b@x.com"

P1 == <<"5", "5", "5", "1", "2", "3", "4">>

P2 == <<"5", "5", "5", " ", "9", "8", "7", "6">>

P3 == <<"5", "5", "5", "-", "(", "1", "2", ")">>

A1 == <<"1", "2", " ", "E", "l", "m">>

A2 == <<"E", "l", "m", " ", "R", "d">>

A3 == <<"1", " ", "E", "l", "m">>

A4 == <<" ", "1", " ", "E", "l", "m">>

W1 == <<"S", "e", "c", "r", "e", "t", "1">>

W2 == <<"P", "a", "s", "s", "1", "2", " ">>

R1 == <<"P", "a", "s", "s", "1", "2">>

R2 == <<" ", "P", "a", "s", "s", "1", "2">>

R3 == <<"P", "a", "s", "1", "2">>

R4 == <<"P", "a", " ", "s", "s", "1", "2">>

\* the rule lists of extract_entities
RuleLists == {"name", "email", "phone", "address", "password"}

RuleCount ==
    [name |-> 7, email |-> 3, phone |-> 4, address |-> 5, password |-> 3]

\* groups the rules capture: ones the filter takes, ones it discards, ones
\* that strip() or the cleanup changes
Groups ==
    [name |-> {<<"Jane", "Roe">>, <<"Please">>, <<"Bob", "want">>},
     email |-> {E1, E2},
     phone |-> {P1, P2, P3},
     address |-> {A1, A2, A3, A4},
     password |-> {W1, W2}]

Found(kind) == {NoMatch} \cup {Match(g) : g \in Groups[kind]}

\* what the rules of a list find in one text
Tables(n, found) ==
    {t \in [1..n -> found] :
        Cardinality({i \in 1..n : t[i].matched}) <= MaxMatches}

FirstOnly(n, match) == [i \in 1..n |-> IF i = 1 THEN match ELSE NoMatch]

RawTexts == {R1, R2, R3, R4}

\* a text no rule matches, and a text in which the first rule of every list
\* matches
PlainText(raw) ==
    [raw |-> raw,
     name |-> FirstOnly(7, NoMatch), first_part |-> NoMatch,
     email |-> FirstOnly(3, NoMatch), phone |-> FirstOnly(4, NoMatch),
     address |-> FirstOnly(5, NoMatch),
     keyword |-> FirstOnly(Len(address_keywords), NoMatch),
     street |-> NoMatch, password |-> FirstOnly(3, NoMatch)]

FullText(raw) ==
    [raw |-> raw,
     name |-> FirstOnly(7, Match(<<"Jane", "Roe">>)), first_part |-> NoMatch,
     email |-> FirstOnly(3, Match(E1)),
     phone |-> FirstOnly(4, Match(P1)),
     address |-> FirstOnly(5, Match(A1)),
     keyword |-> FirstOnly(Len(address_keywords), NoMatch),
     street |-> NoMatch, password |-> FirstOnly(3, Match(W1))]

BaseTexts == {PlainText(raw) : raw \in RawTexts} \cup {FullText(R1)}

FirstParts ==
    {NoMatch, Match(<<"Jane", "Roe">>), Match(<<"Please">>),
     Match(<<"Jane", "van", "der", "Roe">>)}

\* at most one keyword is in a text
KeywordTables ==
    {[i \in DOMAIN address_keywords |-> IF i = k THEN found ELSE NoMatch] :
        k \in DOMAIN address_keywords,
        found \in {NoMatch, Match(A2), Match(A3)}}

\* the text in fn_arg: one rule list, or one fallback, varies at a time
InitExtract ==
    /\ sessions = <<>>
    /\ users = {}
    /\ run = [s \in SessionIds |-> IdleRun]
    /\ commits = [s \in SessionIds |-> {}]
    /\ last = NoCall
    /\ session_rows = <<>>
    /\ fn_result = NotCalled
    /\ chat = NoChat
    /\ \E b \in BaseTexts :
          \/ \E kind \in RuleLists :
                \E t \in Tables(RuleCount[kind], Found(kind)) :
                   fn_arg = [b EXCEPT ![kind] = t]
          \/ \E n \in {NoMatch, Match(<<"Please">>)}, f \in FirstParts :
                fn_arg = [b EXCEPT !.name = FirstOnly(7, n), !.first_part = f]
          \/ \E a \in {NoMatch, Match(A2)}, k \in KeywordTables,
                 st \in {NoMatch, Match(A1), Match(A4)} :
                fn_arg = [b EXCEPT !.address = FirstOnly(5, a),
                                   !.keyword = k, !.street = st]

call_extract_entities ==
    /\ ~fn_result.called
    /\ fn_result' = Called(extract_entities(fn_arg))
    /\ UNCHANGED <<sessions, users, run, commits, last, session_rows,
                   fn_arg, chat>>

NextExtract == call_extract_entities

SpecExtract == InitExtract /\ [][NextExtract]_vars

\* the rules of a list whose group passes the filter of the kind
Passing(matches, Accepted(_)) ==
    {i \in DOMAIN matches : matches[i].matched /\ Accepted(matches[i].group)}

Least(indices) == CHOOSE i \in indices : \A j \in indices : i <= j

AnyGroup(group) == TRUE

Same(group) == group

\* the entities hold, under kind, what the first passing rule produced, and
\* hold the same whatever the rules after it find
FirstPassingWins(text, entities, kind, Accepted(_), Produced(_)) ==
    LET passing == Passing(text[kind], Accepted)
        first == Least(passing)
    IN  passing # {}
           => /\ kind \in DOMAIN entities
              /\ entities[kind] = Produced(text[kind][first].group)
              /\ \A j \in DOMAIN text[kind], found \in Found(kind) :
                    j > first
                       => LET other == [text EXCEPT ![kind][j] = found]
                          IN  extract_entities(other)[kind] = entities[kind]

\* C29: for each kind, extract_entities returns what the first rule in the
\* order of the list produced whose group passes the filter of the kind
\* (name: the denylist; phone: 7 digits after the cleanup; address: longer
\* than 5 with a digit); a group that fails is passed over, and what the
\* rules after the accepted one find makes no difference
C29_FirstPassingRuleWins ==
    fn_result.called
       => LET text == fn_arg
              entities == fn_result.value
          IN  /\ FirstPassingWins(text, entities, "name", name_accepted,
                                  Same)
              /\ FirstPassingWins(text, entities, "email", AnyGroup, Same)
              /\ FirstPassingWins(text, entities, "phone", phone_accepted,
                                  phone_cleanup)
              /\ FirstPassingWins(text, entities, "address",
                                  address_accepted, strip)
              /\ FirstPassingWins(text, entities, "password", AnyGroup,
                                  strip)

\* the first phone rule found too few digits, the second one enough, the
\* third one another number: the phone is the second one's, cleaned up
C29_Witness ==
    /\ fn_result.called
    /\ fn_arg.phone[1] = Match(P3)
    /\ fn_arg.phone[2] = Match(P2)
    /\ fn_arg.phone[3] = Match(P1)
    /\ fn_result.value["phone"] = phone_cleanup(P2)
    /\ fn_result.value["phone"] # P2

\* no labelled password rule matched
Unlabelled(text) == \A i \in DOMAIN text.password : ~text.password[i].matched

\* C30: extract_entities takes the whole stripped text for the password
\* only when the text yields no name, email, phone or address and no
\* labelled password; when it yields any of them, the text is not taken
C30_StandaloneOnlyWhenAlone ==
    fn_result.called
       => LET text == fn_arg
              entities == fn_result.value
              others == DOMAIN entities \ {"password"}
          IN  /\ (Unlabelled(text) /\ "password" \in DOMAIN entities)
                    => /\ others = {}
                       /\ entities["password"] = strip(text.raw)
              /\ (others # {} /\ Unlabelled(text))
                    => "password" \notin DOMAIN entities
              /\ ~Unlabelled(text)
                    => entities["password"]
                          = strip(text.password[
                               Least(Passing(text.password, AnyGroup))].group)

\* a text of the shape of a password that also gave a name: no password
C30_Witness ==
    /\ fn_result.called
    /\ PasswordShaped(strip(fn_arg.raw))
    /\ Unlabelled(fn_arg)
    /\ DOMAIN fn_result.value = {"name"}

(***************************************************************************)
(* The confirmation turn and the commit                                    *)
(***************************************************************************)
\* "yes": the last name rule takes the word for the name
Yes ==
    [entities |-> Entities("yes", Absent, Absent, Absent, Absent, Absent),
     confirms |-> TRUE]

\* C32: "yes" on a session that is confirming changes neither the profile
\* nor the password before the commit: the name, email, phone and address
\* of the user row the call adds are those the session held when the call
\* began
C32_ConfirmationCommitsWhatWasShown ==
    \A s \in DOMAIN sessions :
        ReadyToConfirm(s)
           => LET w == RunGraph(StartRun(sessions[s], users), Yes,
                                NothingExtracted, FALSE, FALSE)
              IN  /\ w.state.password = sessions[s].password
                  /\ \A f \in RequiredSet :
                        /\ w.state.user_profile[f]
                              = sessions[s].user_profile[f]
                        /\ \A u \in w.table \ users :
                              u[f] = sessions[s].user_profile[f]

\* C33: a call attempts the commit only if the session was confirming when
\* the call began; a message that completes the fields or the password and
\* confirms does not reach the commit in its own call
C33_CommitOnlyAfterConfirmingTurn ==
    [][\A s \in SessionIds :
          (TurnStep(s) /\ Executed(last', "register_user"))
             => /\ s \in DOMAIN sessions
                /\ sessions[s].status = CONFIRMING]_vars

\* C34: every row of the users table has a non-empty name, email, phone and
\* address and a non-empty password
C34_UserRowsAreComplete ==
    \A u \in users :
        /\ \A f \in RequiredSet : u[f] \notin {Absent, ""}
        /\ u.password_hash \notin {Absent, ""}

\* a commit has added a row
C34_Witness ==
    \E s \in DOMAIN sessions :
        /\ sessions[s].status = COMPLETED
        /\ \E u \in users :
              /\ u.user_id = sessions[s].user_profile["user_id"]
              /\ u.password_hash = sessions[s].password

\* C35: whenever user_profile holds user_id, its value is the id of a user
\* row a commit of this session created; no extraction sets or changes it
C35_UserIdOnlyFromCommit ==
    \A s \in DOMAIN sessions :
        sessions[s].user_profile["user_id"] # Absent
           => /\ sessions[s].user_profile["user_id"] \in commits[s]
              /\ \E u \in users :
                    u.user_id = sessions[s].user_profile["user_id"]

\* C36: process_message with a session id that is not known creates a
\* session, runs the message on the dict create_session makes, returns the
\* new id in the response, and leaves every other session as it was
C36_UnknownSessionStartsFresh ==
    [][\A s \in SessionIds :
          (s \notin DOMAIN sessions /\ TurnStep(s))
             => /\ last'.response.session_id = s
                /\ DOMAIN sessions' = DOMAIN sessions \cup {s}
                /\ \A x \in DOMAIN sessions : sessions'[x] = sessions[x]
                /\ \E m \in WholeMessages :
                      \E replies \in ReplySeqs(m, ServiceDown),
                         fault \in Faults(m) :
                         LET w == RunGraph(StartRun(NewSessionState, users),
                                           m, replies, fault, FALSE)
                         IN  /\ sessions'[s]
                                  = StateAfterRun(w, NewSessionState, m)
                             /\ users' = w.table]_vars

\* a session that was never created has taken a message while another
\* session had come to its end
C36_Witness ==
    /\ DOMAIN sessions = SessionIds
    /\ last.session = "s2"
    /\ commits["s2"] = {}
    /\ sessions["s2"].status = GATHERING_INFO
    /\ sessions["s1"].status = COMPLETED

\* C37: a required field that is non-empty when a call begins is non-empty
\* when it returns, and a session that was password_needed or confirming
\* does not return to gathering_info
C37_MissingFieldsNeverGrow ==
    [][\A s \in DOMAIN sessions :
          TurnStep(s)
             => /\ \A f \in RequiredSet :
                      ~IsMissing(sessions[s].user_profile, f)
                         => ~IsMissing(sessions'[s].user_profile, f)
                /\ sessions[s].status \in {PASSWORD_NEEDED, CONFIRMING}
                      => sessions'[s].status # GATHERING_INFO]_vars

(***************************************************************************)
(* PerceptionAgent.process_input on its own: the rules' entities, whether  *)
(* a text-generation service is configured, and what it answers            *)
(***************************************************************************)
\* a value of the reply's JSON: null, a string, or a value that is no
\* string (a number, a list), which is truthy or not
JsonNull == [type |-> "null", text |-> "", truthy |-> FALSE]

JsonString(text) == [type |-> "str", text |-> text, truthy |-> text # ""]

JsonOther(truthy) == [type |-> "other", text |-> "", truthy |-> truthy]

JsonValues ==
    {JsonNull, JsonOther(TRUE), JsonOther(FALSE)}
       \cup {JsonString(t) : t \in {"", "null", "None", "N/A", "Jane"}}

ReplyKeys == {"name", "password", "user_id"}

\* the service's answer: it raised, its text holds no {...}, the {...} is
\* no JSON, or it is a JSON object
Responses ==
    {[shape |-> sh, items |-> <<>>] : sh \in {"raised", "no_json", "bad_json"}}
       \cup {[shape |-> "dict", items |-> items] :
                items \in UNION {[keys -> JsonValues] :
                                    keys \in SUBSET ReplyKeys}}

\* "value and value.lower() not in [...]" on a string or on null
Kept(value) ==
    /\ value.truthy
    /\ lower(value.text) \notin {"null", "none", "n/a", ""}

\* value.lower() raises on a truthy value that is no string
LowerRaises(value) == value.truthy /\ value.type = "other"

\* the dict extract_entities_with_llm returns for the answer
extract_entities_with_llm(response) ==
    IF response.shape # "dict" THEN NoDict
    ELSE IF \E k \in DOMAIN response.items : LowerRaises(response.items[k])
    THEN NoDict
    ELSE LET kept == {k \in DOMAIN response.items : Kept(response.items[k])}
         IN  [k \in kept |-> response.items[k].text]

\* a dict as an entity mapping
AsEntities(dict) ==
    [k \in DOMAIN NoEntities |-> IF k \in DOMAIN dict THEN dict[k] ELSE Absent]

\* a service that is asked whenever it is configured
consulted_whenever_configured(llm, entities) == llm

\* "if self.llm and not entities"
Consulted(llm, entities) == llm /\ entities = NoEntities

\* process_input on a text whose rule entities are `entities`
perceive(llm, entities, response) ==
    LET asked == Consulted(llm, entities)
        reply == IF asked THEN AsEntities(extract_entities_with_llm(response))
                 ELSE NoEntities
    IN  [entities |-> IF asked
                      THEN process_input([entities |-> entities], reply)
                      ELSE entities,
         consulted |-> asked]

PerceiveArgs ==
    [llm : BOOLEAN,
     entities : {NoEntities,
                 Entities("Jane", Absent, Absent, Absent, Absent, Absent),
                 Entities(Absent, Absent, Absent, Absent, "Secret1", Absent)},
     response : Responses]

InitPerceive ==
    /\ sessions = <<>>
    /\ users = {}
    /\ run = [s \in SessionIds |-> IdleRun]
    /\ commits = [s \in SessionIds |-> {}]
    /\ last = NoCall
    /\ session_rows = <<>>
    /\ fn_arg \in PerceiveArgs
    /\ fn_result = NotCalled
    /\ chat = NoChat

call_process_input ==
    /\ ~fn_result.called
    /\ fn_result' = Called(perceive(fn_arg.llm, fn_arg.entities,
                                    fn_arg.response))
    /\ UNCHANGED <<sessions, users, run, commits, last, session_rows,
                   fn_arg, chat>>

NextPerceive == call_process_input

SpecPerceive == InitPerceive /\ [][NextPerceive]_vars

\* null, the empty string, or "null", "none", "n/a" in any case
IsSentinel(value) ==
    \/ value.type = "null"
    \/ value.type = "str" /\ lower(value.text) \in {"null", "none", "n/a", ""}

\* C31: the service is asked for entities only when the rules found none
\* and a service is configured; otherwise the entities are the rules'; a
\* key whose value in the reply is null or an empty sentinel is not among
\* the entities, and an answer that is no JSON object gives no entities
C31_ServiceOnlyWhenRulesFindNothing ==
    fn_result.called
       => LET arg == fn_arg
              result == fn_result.value
          IN  /\ result.consulted
                    <=> (arg.llm /\ arg.entities = NoEntities)
              /\ ~result.consulted => result.entities = arg.entities
              /\ (result.consulted /\ arg.response.shape # "dict")
                    => result.entities = NoEntities
              /\ (result.consulted /\ arg.response.shape = "dict")
                    => \A k \in DOMAIN NoEntities :
                          (\/ k \notin DOMAIN arg.response.items
                           \/ IsSentinel(arg.response.items[k]))
                             => result.entities[k] = Absent

\* the service was asked and answered a name, "N/A" for the password and
\* null for user_id: the name alone is among the entities
C31_Witness ==
    /\ fn_result.called
    /\ fn_result.value.consulted
    /\ fn_arg.response.shape = "dict"
    /\ DOMAIN fn_arg.response.items = ReplyKeys
    /\ fn_arg.response.items["name"] = JsonString("Jane")
    /\ fn_arg.response.items["password"] = JsonString("N/A")
    /\ fn_arg.response.items["user_id"] = JsonNull
    /\ fn_result.value.entities
          = Entities("Jane", Absent, Absent, Absent, Absent, Absent)

(***************************************************************************)
(* RegistrationSystem (registration.py): the same graph over its own node  *)
(* methods and SimpleDB.  The texts of its system messages are its own;    *)
(* its process_message has no try around the run.                          *)
(***************************************************************************)
registration_initialize_state(state, entities) ==
    [MergeEntities(state, entities) EXCEPT
        !.status = GATHERING_INFO,
        !.system_message = Text("registration_initialized", {})]

registration_identify_missing_info(state) ==
    LET missing == SelectSeq(required_fields,
                             LAMBDA f : IsMissing(state.user_profile, f))
        checked == [state EXCEPT !.missing_fields = missing]
    IN  IF missing = <<>>
        THEN IF state.password # ""
             THEN [checked EXCEPT !.status = CONFIRMING,
                                  !.system_message = Text("all_provided", {})]
             ELSE [checked EXCEPT !.status = PASSWORD_NEEDED,
                                  !.system_message =
                                      Text("provide_password", {})]
        ELSE [checked EXCEPT !.system_message = Text("missing_information",
                                                     {})]

registration_process_user_input(state, entities) ==
    MergeEntities(state, entities)

\* SimpleDB.create_user: the statements of MemoryAgent.store_user
create_user(table, user_data) == store_user(table, user_data)

registration_register_user(state, result) ==
    IF result.status = "success"
    THEN [state EXCEPT !.status = COMPLETED,
                       !.user_profile["user_id"] = result.user_id,
                       !.system_message =
                           Text("registration_completed", {result.user_id})]
    ELSE [state EXCEPT !.status = FAILED,
                       !.system_message = Text("registration_failed", {})]

\* _generate_response saves the state and leaves it as it is
registration_generate_response(state) == state

registration_should_register(state, message) ==
    LET has_required_fields ==
            \A f \in RequiredSet : ~IsMissing(state.user_profile, f)
        has_password == state.password # ""
        user_confirmed == message.confirms
    IN  has_required_fields /\ has_password /\ state.status = CONFIRMING
        /\ user_confirmed

registration_after_process_input(state, message) ==
    IF registration_should_register(state, message) THEN "register_user"
    ELSE IF Len(state.missing_fields) > 0 THEN "identify_missing_info"
    ELSE "generate_response"

\* one node of RegistrationSystem's graph; fault: create_user raised, and
\* nothing between the node and the caller of process_message catches it
RegistrationStep(w, message, replies, fault) ==
    CASE w.node = "initialize" ->
           [w EXCEPT !.state = registration_initialize_state(w.state,
                         process_input(message, Reply(w, replies))),
                     !.calls = @ + 1,
                     !.node = "identify_missing_info",
                     !.trace = Append(@, "initialize")]
      [] w.node = "identify_missing_info" ->
           [w EXCEPT !.state = registration_identify_missing_info(w.state),
                     !.node = "process_input",
                     !.trace = Append(@, "identify_missing_info")]
      [] w.node = "process_input" ->
           LET after == registration_process_user_input(w.state,
                            process_input(message, Reply(w, replies)))
           IN  [w EXCEPT !.state = after,
                         !.calls = @ + 1,
                         !.node = registration_after_process_input(after,
                                                                   message),
                         !.trace = Append(@, "process_input")]
      [] w.node = "register_user" ->
           IF fault
           THEN [w EXCEPT !.node = "raised",
                          !.trace = Append(@, "register_user")]
           ELSE LET result == create_user(w.table, UserData(w.state))
                IN  [w EXCEPT
                       !.state = registration_register_user(w.state, result),
                       !.table = result.table,
                       !.committed = IF result.status = "success"
                                     THEN @ \cup {result.user_id} ELSE @,
                       !.node = "generate_response",
                       !.trace = Append(@, "register_user")]
      [] w.node = "generate_response" ->
           [w EXCEPT !.state = registration_generate_response(w.state),
                     !.saved = Called(Snapshot(w.state)),
                     !.node = AfterGenerateResponse(w.state),
                     !.trace = Append(@, "generate_response")]

\* the run of RegistrationSystem.process_message: to END, or to the
\* exception that leaves process_message
RECURSIVE RegistrationRun(_, _, _, _)
RegistrationRun(w, message, replies, fault) ==
    IF w.node \in {"end", "raised"} \/ Raised(w)
    THEN w
    ELSE RegistrationRun(RegistrationStep(w, message, replies, fault),
                         message, replies, fault)

\* C39: from the same session, with the same extraction results and the
\* same outcome of the store, RegistrationSystem and OrchestrationAgent end
\* the call with the same status, missing_fields and users table, and
\* their _should_register agree on every state of the call
C39_SameStateMachine ==
    \A s \in DOMAIN sessions :
        \A m \in Messages :
           \A replies \in ReplySeqs(m, LLMReplies), fault \in Faults(m) :
              LET a == RunGraph(StartRun(sessions[s], users), m, replies,
                                fault, FALSE)
                  b == RegistrationRun(StartRun(sessions[s], users), m,
                                       replies, fault)
              IN  /\ a.state.status = b.state.status
                  /\ a.state.missing_fields = b.state.missing_fields
                  /\ a.table = b.table
                  /\ \A w \in RunWs(StartRun(sessions[s], users), m, replies,
                                    fault) :
                        should_register(w.state, m)
                           = registration_should_register(w.state, m)

(***************************************************************************)
(* ChatInterface: _on_send puts the messages on message_queue, the thread  *)
(* started by _create_widgets takes them off and calls process_message on  *)
(* the session made by __init__                                            *)
(***************************************************************************)
\* messages one run of the interface sends
MaxSent == 3

\* the threads that run _process_messages, and two of them
TwoWorkers == {"w1", "w2"}

Workers == {"w1"}

ChatMessages ==
    {[entities |-> NoEntities, confirms |-> FALSE],
     [entities |-> Entities("Jane", "a@x.com", "5551234", "12 Elm St",
                            "Secret1", Absent),
      confirms |-> FALSE],
     [entities |-> NoEntities, confirms |-> TRUE]}

\* a worker waiting in get() holds no message: the field is a blank one
IdleWorker ==
    [pc |-> "get", message |-> [entities |-> NoEntities, confirms |-> FALSE]]

\* sent (history): the messages in the order _on_send put them;
\* handled (history): the calls that ended, in the order they ended
InitChat ==
    /\ sessions = [s \in OneSession |-> NewSessionState]
    /\ users = {}
    /\ run = [s \in SessionIds |-> IdleRun]
    /\ commits = [s \in SessionIds |-> {}]
    /\ last = NoCall
    /\ session_rows = <<>>
    /\ fn_arg = <<>>
    /\ fn_result = NotCalled
    /\ chat = [queue |-> <<>>, sent |-> <<>>, handled |-> <<>>,
               worker |-> [t \in TwoWorkers |-> IdleWorker]]

\* _on_send: self.message_queue.put(message)
on_send(message) ==
    /\ Len(chat.sent) < MaxSent
    /\ chat' = [chat EXCEPT !.queue = Append(@, message),
                            !.sent = Append(@, message)]
    /\ UNCHANGED <<sessions, users, run, commits, last, session_rows,
                   fn_arg, fn_result>>

\* message_queue.get(): the worker takes the head and enters the call
worker_get(t) ==
    /\ chat.worker[t].pc = "get"
    /\ chat.queue # <<>>
    /\ chat' = [chat EXCEPT
                   !.queue = Tail(@),
                   !.worker[t] = [pc |-> "call", message |-> Head(chat.queue)]]
    /\ UNCHANGED <<sessions, users, run, commits, last, session_rows,
                   fn_arg, fn_result>>

\* the worker's record of a call that ended, and the worker back at get()
Handled(t, outcome) ==
    chat' = [chat EXCEPT
                !.handled = Append(@, [message |-> chat.worker[t].message,
                                       outcome |-> outcome]),
                !.worker[t] = IdleWorker]

\* process_message returns; the reply is shown; task_done()
worker_reply(t, replies, fault) ==
    /\ chat.worker[t].pc = "call"
    /\ \E s \in OneSession :
          LET message == chat.worker[t].message
              w == RunGraph(StartRun(sessions[s], users), message, replies,
                            fault, FALSE)
          IN  Returned(s, w, sessions[s], message)
    /\ Handled(t, "reply")
    /\ UNCHANGED <<run, session_rows>>

\* the call raises: the inner except shows the error text; task_done()
worker_error(t) ==
    /\ chat.worker[t].pc = "call"
    /\ Handled(t, "error")
    /\ UNCHANGED <<sessions, users, run, commits, last, session_rows,
                   fn_arg, fn_result>>

WorkerStep(t) ==
    \/ worker_get(t)
    \/ worker_error(t)
    \/ \E replies \in ReplySeqs(chat.worker[t].message, ServiceDown),
          fault \in Faults(chat.worker[t].message) :
          worker_reply(t, replies, fault)

NextChat ==
    \/ \E m \in ChatMessages : on_send(m)
    \/ \E t \in Workers : WorkerStep(t)

\* the worker thread runs as long as the interface does
SpecChat ==
    InitChat /\ [][NextChat]_vars /\ \A t \in Workers : WF_vars(WorkerStep(t))

\* the messages of a sequence of records
MessagesOf(records) == [i \in DOMAIN records |-> records[i].message]

Calling == {t \in TwoWorkers : chat.worker[t].pc = "call"}

InCall ==
    IF Calling = {} THEN <<>>
    ELSE <<chat.worker[CHOOSE t \in Calling : TRUE].message>>

\* C38: at most one process_message call runs at a time; the messages
\* handled, the one in the call and those still queued are, in this order,
\* the messages sent, each one once; and every message sent is handled in
\* the end, whether or not a call before it raised
C38_OneWorkerInOrder ==
    /\ [](Cardinality(Calling) <= 1)
    /\ [](MessagesOf(chat.handled) \o InCall \o chat.queue = chat.sent)
    /\ \A i \in 1..MaxSent :
          (Len(chat.sent) >= i) ~> (Len(chat.handled) >= i)

\* a call raised, and the message sent after it got its reply
C38_Witness ==
    /\ Len(chat.handled) = 3
    /\ chat.handled[1].outcome = "reply"
    /\ chat.handled[2].outcome = "error"
    /\ chat.handled[3].outcome = "reply"
    /\ chat.handled[3].message.confirms
    /\ sessions["s1"].status = COMPLETED

=============================================================================
